---- MODULE Spec2Model ----
(***************************************************************************)
(* First-Order-Logic-Game: the template-driven rule engine                 *)
(* (scripts/templateHandlers.js, shipped inside statementGenerator.js) and *)
(* the session controller (scripts/main.js).                               *)
(*                                                                         *)
(* Two specifications share the variables:                                 *)
(*   Spec      the facade of one template: generateStatements,             *)
(*             generateGrid(satisfies, details), verifyStatementWithGrid;  *)
(*   SpecGame  the session controller: initializeGame, evaluateGuess.      *)
(*                                                                         *)
(* Every random draw (Math.random) is a nondeterministic choice.  An       *)
(* operation whose result depends on random draws is an operator that      *)
(* yields the SET of its possible results.                                 *)
(***************************************************************************)
EXTENDS Integers, Sequences, FiniteSets, TLC

VARIABLES
    tier,          \* engine harness: difficulty key of the template in use
    tpl,           \* engine harness: index of the template definition in its tier
    details,       \* engine harness: details returned by generateStatements
    grid,          \* engine harness: grid returned by generateGrid
    enforced,      \* engine harness: the grid as enforceRules left it (before createViolation)
    chosenRule,    \* engine harness: index of the rule createViolation drew (0: none)
    satisfies,     \* engine harness: the flag generateGrid was called with
    verdict,       \* engine harness: last result of verifyStatementWithGrid
    pc,            \* engine harness: which facade call happened last
    currentState,  \* main.js: let currentState
    cachedTemplates, \* statementGenerator.js: let cachedTemplates (loaded or not)
    dom,           \* main.js: what the page shows (option buttons, controls, grid)
    gpc,           \* main.js: position of the session controller
    lastRound,     \* main.js: how the last initializeGame ended, and what it drew
    changes        \* main.js: how often the difficulty select was changed

vars == <<tier, tpl, details, grid, enforced, chosenRule, satisfies, verdict, pc,
          currentState, cachedTemplates, dom, gpc, lastRound, changes>>

engineVars == <<tier, tpl, details, grid, enforced, chosenRule, satisfies, verdict, pc>>
gameVars == <<currentState, cachedTemplates, dom, gpc, lastRound, changes>>

(***************************************************************************)
(* Bounds of the exploration.                                              *)
(***************************************************************************)
\* utils.js ships gridSize = 5; the engine reads it as a parameter everywhere,
\* and the model explores the engine on a smaller square grid.
gridSize == 2
\* puzzleNumber is capped: no new round starts once it reached MaxPuzzles.
MaxPuzzles == 2
\* The difficulty select is changed at most MaxChanges times.
MaxChanges == 1

(***************************************************************************)
(* utils.js: value domain and random sampling.                             *)
(***************************************************************************)
shapes == <<"circle", "square", "triangle">>
colors == <<"#ff82a9", "#7ed957", "#6ecbff", "#ffd966", "#b07bff">>
numbers == <<1, 2, 3, 4, 5, 6, 7, 8, 9, 10>>

Range(s) == {s[i] : i \in 1..Len(s)}
SeqMin(s) == CHOOSE m \in Range(s) : \A n \in Range(s) : m <= n
SeqMax(s) == CHOOSE m \in Range(s) : \A n \in Range(s) : m >= n
Min2(a, b) == IF a <= b THEN a ELSE b
Max2(a, b) == IF a >= b THEN a ELSE b

undefined == "undefined"
null == "null"

getColorName(colorHex) ==
    CASE colorHex = "#ff82a9" -> "Pink"
      [] colorHex = "#7ed957" -> "Green"
      [] colorHex = "#6ecbff" -> "Sky Blue"
      [] colorHex = "#ffd966" -> "Yellow"
      [] colorHex = "#b07bff" -> "Purple"
      [] OTHER -> colorHex

\* The set of values getRandomElement(array) can return.
getRandomElement(array) == IF Len(array) = 0 THEN {null} ELSE Range(array)

\* The set of values randomIntFromInterval(min, max) can return.
randomIntFromInterval(min, max) == IF min > max THEN {min} ELSE min..max

(***************************************************************************)
(* templateHandlers.js: helpers.                                           *)
(***************************************************************************)
\* A clamp that lets every value through (what clamp does not).
unclamped(value, min, max) == value

clamp(value, min, max) == Min2(Max2(value, min), max)

getDomain(property) ==
    CASE property = "shape" -> shapes
      [] property = "color" -> colors
      [] property = "number" -> numbers

pickDistinct(property, excludeValue) ==
    LET domain == SelectSeq(getDomain(property), LAMBDA value : value # excludeValue)
    IN  getRandomElement(IF Len(domain) > 0 THEN domain ELSE getDomain(property))

ensureBounds(min, max) ==
    LET floor == SeqMin(numbers)
        ceiling == SeqMax(numbers)
    IN  <<clamp(min, floor, ceiling), clamp(max, floor, ceiling)>>

(***************************************************************************)
(* Value references and conditions.  A context is a record                 *)
(* [cell, neighbor, details]; an absent condition is noCondition.          *)
(***************************************************************************)
noCondition == [operator |-> "absent"]
noAction == [action |-> "absent"]

Lookup(d, key) == IF key \in DOMAIN d THEN d[key] ELSE undefined

resolveValue(ref, context) ==
    CASE ref.kind = "placeholder" -> Lookup(context.details, ref.key)
      [] ref.kind = "placeholderName" -> Lookup(context.details, ref.key)
      [] ref.kind = "cellProperty" -> context.cell[ref.property]
      [] ref.kind = "neighborProperty" -> context.neighbor[ref.property]
      [] ref.kind = "constant" -> ref.value
      [] ref.kind = "number" -> ref.value

isPrime(value) ==
    IF value < 2 THEN FALSE
    ELSE IF value = 2 THEN TRUE
    ELSE IF value % 2 = 0 THEN FALSE
    ELSE ~ \E i \in 3..value : i % 2 = 1 /\ i * i <= value /\ value % i = 0

isInRegion(cell, direction, numUnits) ==
    CASE direction = "left" -> cell.position.col < numUnits
      [] direction = "right" -> cell.position.col >= (gridSize - numUnits)
      [] direction = "top" -> cell.position.row < numUnits
      [] direction = "bottom" -> cell.position.row >= (gridSize - numUnits)
      [] OTHER -> FALSE

RECURSIVE evaluateCondition(_, _)
evaluateCondition(condition, context) ==
    LET op == condition.operator IN
    CASE op = "absent" -> TRUE
      [] op = "all" ->
            \A i \in 1..Len(condition.conditions) :
                evaluateCondition(condition.conditions[i], context)
      [] op = "any" ->
            \E i \in 1..Len(condition.conditions) :
                evaluateCondition(condition.conditions[i], context)
      [] op = "not" -> ~ evaluateCondition(condition.condition, context)
      [] op = "equals" ->
            resolveValue(condition.left, context) = resolveValue(condition.right, context)
      [] op = "notEquals" ->
            resolveValue(condition.left, context) # resolveValue(condition.right, context)
      [] op = "greaterThan" ->
            resolveValue(condition.left, context) > resolveValue(condition.right, context)
      [] op = "lessThan" ->
            resolveValue(condition.left, context) < resolveValue(condition.right, context)
      [] op = "greaterOrEqual" ->
            resolveValue(condition.left, context) >= resolveValue(condition.right, context)
      [] op = "lessOrEqual" ->
            resolveValue(condition.left, context) <= resolveValue(condition.right, context)
      [] op = "between" ->
            LET value == resolveValue(condition.value, context)
            IN  /\ value >= resolveValue(condition.min, context)
                /\ value <= resolveValue(condition.max, context)
      [] op = "parity" ->
            LET value == resolveValue(condition.value, context)
            IN  IF resolveValue(condition.parity, context) = "even"
                THEN value % 2 = 0
                ELSE value % 2 # 0
      [] op = "prime" -> isPrime(resolveValue(condition.value, context))
      [] op = "multipleOf" ->
            resolveValue(condition.value, context) % resolveValue(condition.factor, context) = 0
      [] op = "inRegion" ->
            isInRegion(context.cell,
                       resolveValue(condition.direction, context),
                       resolveValue(condition.size, context))

\* A context built without a cell (or without a neighbor) resolves its properties
\* to undefined (context.cell?.[property]).
absentCell ==
    [shape |-> undefined, color |-> undefined, number |-> undefined,
     position |-> [row |-> undefined, col |-> undefined]]
CellContext(cell, d) == [cell |-> cell, neighbor |-> absentCell, details |-> d]
NeighborOnlyContext(neighbor, d) == [cell |-> absentCell, neighbor |-> neighbor, details |-> d]
NeighborContext(cell, neighbor, d) == [cell |-> cell, neighbor |-> neighbor, details |-> d]

(***************************************************************************)
(* Cell and neighbor actions.  applyCellAction yields the set of           *)
(* [status, cell] it can end with (the cell is mutated in place).          *)
(***************************************************************************)
applyCellAction(action, cell, d) ==
    CASE action.action = "setCellProperty" ->
            {[status |-> "applied",
              cell |-> [cell EXCEPT ![action.property] =
                            resolveValue(action.value, CellContext(cell, d))]]}
      [] action.action = "setCellPropertyDistinct" ->
            {[status |-> "applied", cell |-> [cell EXCEPT ![action.property] = v]] :
                v \in pickDistinct(action.property, Lookup(d, action.fromPlaceholder))}
      [] action.action = "requireRegion" ->
            IF isInRegion(cell,
                          resolveValue(action.direction, CellContext(cell, d)),
                          resolveValue(action.size, CellContext(cell, d)))
            THEN {[status |-> "applied", cell |-> cell]}
            ELSE {[status |-> "needsBreak", cell |-> cell]}

\* An adjustment that writes the threshold whatever the comparison (what
\* getValueMeetingComparison does not).
thresholdItself(comparison, threshold) == threshold

getValueMeetingComparison(comparison, threshold) ==
    CASE comparison = "greaterThan" -> clamp(threshold + 1, SeqMin(numbers), SeqMax(numbers))
      [] comparison = "greaterOrEqual" -> clamp(threshold, SeqMin(numbers), SeqMax(numbers))
      [] comparison = "lessThan" -> clamp(threshold - 1, SeqMin(numbers), SeqMax(numbers))
      [] comparison = "lessOrEqual" -> clamp(threshold, SeqMin(numbers), SeqMax(numbers))
      [] OTHER -> threshold

getValueBreakingComparison(comparison, threshold) ==
    CASE comparison = "greaterThan" -> clamp(threshold, SeqMin(numbers), SeqMax(numbers))
      [] comparison = "greaterOrEqual" -> clamp(threshold - 1, SeqMin(numbers), SeqMax(numbers))
      [] comparison = "lessThan" -> clamp(threshold + 1, SeqMin(numbers), SeqMax(numbers))
      [] comparison = "lessOrEqual" -> clamp(threshold + 1, SeqMin(numbers), SeqMax(numbers))
      [] OTHER -> threshold

\* The set of states ensureNeighbor can leave the neighbor in.
ensureNeighbor(action, neighbor, d) ==
    CASE action.action = "setNeighborProperty" ->
            {[neighbor EXCEPT ![action.property] =
                  resolveValue(action.value, NeighborOnlyContext(neighbor, d))]}
      [] action.action = "setNeighborPropertyDistinct" ->
            {[neighbor EXCEPT ![action.property] = v] :
                v \in pickDistinct(action.property, Lookup(d, action.fromPlaceholder))}
      [] action.action = "ensureNeighborNumber" ->
            {[neighbor EXCEPT !.number =
                  getValueMeetingComparison(action.comparison, Lookup(d, action.placeholder))]}
      [] action.action = "setNeighborNumberBreaking" ->
            {[neighbor EXCEPT !.number =
                  getValueBreakingComparison(action.comparison, Lookup(d, action.placeholder))]}

getNeighborPositions(cell, direction) ==
    LET row == cell.position.row
        col == cell.position.col
    IN  CASE direction = "right" -> <<[row |-> row, col |-> col + 1]>>
          [] direction = "left" -> <<[row |-> row, col |-> col - 1]>>
          [] direction = "above" -> <<[row |-> row - 1, col |-> col]>>
          [] direction = "below" -> <<[row |-> row + 1, col |-> col]>>
          [] direction = "topLeft" -> <<[row |-> row - 1, col |-> col - 1]>>
          [] direction = "topRight" -> <<[row |-> row - 1, col |-> col + 1]>>
          [] OTHER -> <<>>

\* grid.find(candidate => same position): the index of the first match, 0 when none.
FindAt(g, pos) ==
    LET hits == {i \in 1..Len(g) : g[i].position = pos}
    IN  IF hits = {} THEN 0 ELSE CHOOSE i \in hits : \A j \in hits : i <= j

\* getNeighborCells, as the indices (in the grid) of the cells it returns.
getNeighborCells(g, cell, direction) ==
    LET positions == getNeighborPositions(cell, direction)
        found == [k \in 1..Len(positions) |-> FindAt(g, positions[k])]
    IN  SelectSeq(found, LAMBDA i : i # 0)

(***************************************************************************)
(* generateDetails.  A placeholder definition is a record; an optional     *)
(* parameter is a sequence, empty when the JSON leaves it out.             *)
(***************************************************************************)
Placeholder(key, type) ==
    [key |-> key, type |-> type, excludePlaceholders |-> <<>>, options |-> <<>>,
     min |-> <<>>, max |-> <<>>, minRef |-> <<>>, minOffset |-> <<>>,
     maxRef |-> <<>>, maxOffset |-> <<>>]

OrElse(opt, default) == IF Len(opt) > 0 THEN opt[1] ELSE default

placeholderTypes ==
    {"shape", "color", "number", "int", "choice", "comparison", "parity", "factor"}
computedFieldTypes ==
    {"colorName", "regionDescription", "comparisonWord", "comparisonSymbol",
     "parityPredicate", "stringTemplate"}

\* excludePlaceholders mapped to their values, .filter(Boolean)
ExcludedValues(def, d) ==
    {d[def.excludePlaceholders[i]] :
        i \in {j \in 1..Len(def.excludePlaceholders) : def.excludePlaceholders[j] \in DOMAIN d}}

\* The set of values one placeholder can be given, the earlier ones being d.
placeholderValues(def, d) ==
    CASE def.type \in {"shape", "color"} ->
            LET all == IF def.type = "shape" THEN shapes ELSE colors
                excluded == ExcludedValues(def, d)
                domain == SelectSeq(all, LAMBDA v : v \notin excluded)
            IN  getRandomElement(IF Len(domain) > 0 THEN domain ELSE all)
      [] def.type = "number" ->
            LET min0 == IF Len(def.minRef) > 0
                        THEN d[def.minRef[1]] + OrElse(def.minOffset, 0)
                        ELSE OrElse(def.min, SeqMin(numbers))
                max0 == IF Len(def.maxRef) > 0
                        THEN d[def.maxRef[1]] + OrElse(def.maxOffset, 0)
                        ELSE OrElse(def.max, SeqMax(numbers))
                b == ensureBounds(min0, max0)
            IN  randomIntFromInterval(b[1], b[2])
      [] def.type = "int" ->
            LET min0 == IF Len(def.minRef) > 0
                        THEN d[def.minRef[1]] + OrElse(def.minOffset, 0)
                        ELSE OrElse(def.min, 0)
                max0 == IF Len(def.maxRef) > 0
                        THEN d[def.maxRef[1]] + OrElse(def.maxOffset, 0)
                        ELSE OrElse(def.max, gridSize)
            IN  IF min0 > max0
                THEN randomIntFromInterval(max0, min0)
                ELSE randomIntFromInterval(min0, max0)
      [] def.type = "choice" -> getRandomElement(def.options)
      [] def.type = "comparison" ->
            getRandomElement(IF Len(def.options) > 0 THEN def.options ELSE <<"greater", "less">>)
      [] def.type = "parity" -> getRandomElement(<<"even", "odd">>)
      [] def.type = "factor" ->
            getRandomElement(IF Len(def.options) > 0 THEN def.options ELSE <<2, 3>>)

\* String(n) for the numbers a template can interpolate.
NumText(n) ==
    IF n \in 0..12
    THEN <<"0", "1", "2", "3", "4", "5", "6", "7", "8", "9", "10", "11", "12">>[n + 1]
    ELSE "NaN"

\* A template string is a sequence of tokens: literal text, {key} of a text value,
\* {key} of a number, {key} of a computed text.  A filled template is the sequence
\* of the pieces of text it is made of.
Lit(s) == [t |-> "lit", s |-> s]
Key(k) == [t |-> "key", s |-> k]
NumKey(k) == [t |-> "num", s |-> k]
TextKey(k) == [t |-> "text", s |-> k]

RECURSIVE fillTemplate(_, _)
fillTemplate(template, d) ==
    IF Len(template) = 0 THEN <<>>
    ELSE LET tok == Head(template)
             piece ==
                CASE tok.t = "lit" -> <<tok.s>>
                  [] tok.s \notin DOMAIN d -> <<"{", tok.s, "}">>
                  [] tok.t = "key" -> <<d[tok.s]>>
                  [] tok.t = "num" -> <<NumText(d[tok.s])>>
                  [] tok.t = "text" -> d[tok.s]
         IN  piece \o fillTemplate(Tail(template), d)

computedValue(field, d) ==
    CASE field.type = "colorName" -> getColorName(d[field.source])
      [] field.type = "regionDescription" ->
            LET direction == d[field.directionKey]
                dimension == IF direction = "left" \/ direction = "right"
                             THEN "columns" ELSE "rows"
            IN  <<direction, " ", NumText(d[field.sizeKey]), " ", dimension>>
      [] field.type = "comparisonWord" ->
            IF d[field.source] = "greater" THEN "greater than" ELSE "less than"
      [] field.type = "comparisonSymbol" ->
            IF d[field.source] = "greater" THEN ">" ELSE "<"
      [] field.type = "parityPredicate" ->
            IF d[field.source] = "even" THEN "Even" ELSE "Odd"
      [] field.type = "stringTemplate" -> fillTemplate(field.template, d)

RECURSIVE PlaceholdersFrom(_, _, _)
PlaceholdersFrom(placeholders, k, d) ==
    IF k > Len(placeholders) THEN {d}
    ELSE UNION {PlaceholdersFrom(placeholders, k + 1, (placeholders[k].key :> v) @@ d) :
                    v \in placeholderValues(placeholders[k], d)}

RECURSIVE ComputedFrom(_, _, _)
ComputedFrom(computedFields, k, d) ==
    IF k > Len(computedFields) THEN d
    ELSE ComputedFrom(computedFields, k + 1,
                      (computedFields[k].key :> computedValue(computedFields[k], d)) @@ d)

\* generateDetails throws on a placeholder type or a computed field it does not know.
generateDetailsThrows(definition) ==
    \/ \E k \in 1..Len(definition.placeholders) :
            definition.placeholders[k].type \notin placeholderTypes
    \/ \E k \in 1..Len(definition.computedFields) :
            definition.computedFields[k].type \notin computedFieldTypes

\* The set of details generateDetails can return (when it does not throw).
generateDetails(definition) ==
    {ComputedFrom(definition.computedFields, 1, d) :
        d \in PlaceholdersFrom(definition.placeholders, 1, <<>>)}

(***************************************************************************)
(* The rule engine.  A rule is a record                                    *)
(*   [type, when, actions, breakAntecedent, violation, neighbor]           *)
(* with neighbor = [direction, conditions, satisfy, violation]; what the   *)
(* JSON leaves out is noCondition, noAction or an empty sequence.          *)
(***************************************************************************)
applyBreakAntecedent(rule, cell, d) ==
    IF rule.breakAntecedent.action = "absent" THEN {cell}
    ELSE {r.cell : r \in applyCellAction(rule.breakAntecedent, cell, d)}

primes == SelectSeq(numbers, LAMBDA n : isPrime(n))

\* The set of states ensureCellSatisfiesCondition can leave the cell in.
RECURSIVE ensureCellSatisfiesCondition(_, _, _)
RECURSIVE EnsureAllFrom(_, _, _, _)
EnsureAllFrom(conditions, k, cell, d) ==
    IF k > Len(conditions) THEN {cell}
    ELSE UNION {EnsureAllFrom(conditions, k + 1, c, d) :
                    c \in ensureCellSatisfiesCondition(conditions[k], cell, d)}

ensureCellSatisfiesCondition(condition, cell, d) ==
    LET op == condition.operator
        ctx == CellContext(cell, d)
    IN
    CASE op = "all" -> EnsureAllFrom(condition.conditions, 1, cell, d)
      [] op = "any" ->
            IF Len(condition.conditions) > 0
            THEN LET holding == {i \in 1..Len(condition.conditions) :
                                    evaluateCondition(condition.conditions[i], ctx)}
                     preferred == IF holding = {} THEN 1
                                  ELSE CHOOSE i \in holding : \A j \in holding : i <= j
                 IN  ensureCellSatisfiesCondition(condition.conditions[preferred], cell, d)
            ELSE {cell}
      [] op = "equals" ->
            IF condition.left.kind = "cellProperty"
            THEN {[cell EXCEPT ![condition.left.property] = resolveValue(condition.right, ctx)]}
            ELSE {cell}
      [] op \in {"greaterThan", "greaterOrEqual", "lessThan", "lessOrEqual"} ->
            {[cell EXCEPT !.number =
                  getValueMeetingComparison(op, resolveValue(condition.right, ctx))]}
      [] op = "between" ->
            {[cell EXCEPT !.number = n] :
                n \in randomIntFromInterval(resolveValue(condition.min, ctx),
                                            resolveValue(condition.max, ctx))}
      [] op = "parity" ->
            LET parity == resolveValue(condition.parity, ctx)
                domain == SelectSeq(numbers,
                              LAMBDA n : IF parity = "even" THEN n % 2 = 0 ELSE n % 2 # 0)
            IN  {[cell EXCEPT !.number = n] : n \in getRandomElement(domain)}
      [] op = "prime" -> {[cell EXCEPT !.number = n] : n \in getRandomElement(primes)}
      [] op = "multipleOf" ->
            LET factor == resolveValue(condition.factor, ctx)
                multiples == SelectSeq(numbers, LAMBDA n : n % factor = 0)
            IN  {[cell EXCEPT !.number = n] : n \in getRandomElement(multiples)}
      [] op = "inRegion" ->
            LET direction == resolveValue(condition.direction, ctx)
                size == resolveValue(condition.size, ctx)
            IN  CASE direction = "left" ->
                        {[cell EXCEPT !.position.col = n] :
                            n \in randomIntFromInterval(0, size - 1)}
                  [] direction = "right" ->
                        {[cell EXCEPT !.position.col = n] :
                            n \in randomIntFromInterval(gridSize - size, gridSize - 1)}
                  [] direction = "top" ->
                        {[cell EXCEPT !.position.row = n] :
                            n \in randomIntFromInterval(0, size - 1)}
                  [] direction = "bottom" ->
                        {[cell EXCEPT !.position.row = n] :
                            n \in randomIntFromInterval(gridSize - size, gridSize - 1)}
                  [] OTHER -> {cell}
      [] OTHER -> {cell}

\* One cell of enforceImplicationRule: the actions in order, up to the first needsBreak.
RECURSIVE ApplyActionsFrom(_, _, _, _)
ApplyActionsFrom(rule, k, cell, d) ==
    IF k > Len(rule.actions) THEN {cell}
    ELSE UNION {IF r.status = "needsBreak"
                THEN applyBreakAntecedent(rule, r.cell, d)
                ELSE ApplyActionsFrom(rule, k + 1, r.cell, d) :
                    r \in applyCellAction(rule.actions[k], cell, d)}

RECURSIVE EnforceImplicationFrom(_, _, _, _)
EnforceImplicationFrom(rule, g, i, d) ==
    IF i > Len(g) THEN {g}
    ELSE IF ~ evaluateCondition(rule.when, CellContext(g[i], d))
    THEN EnforceImplicationFrom(rule, g, i + 1, d)
    ELSE UNION {EnforceImplicationFrom(rule, [g EXCEPT ![i] = c], i + 1, d) :
                    c \in ApplyActionsFrom(rule, 1, g[i], d)}

\* An enforcement pass that writes no cell (what enforceImplicationRule is not).
leaveGridAsDrawn(rule, g, d) == {g}

\* The set of grids enforceImplicationRule can leave.
enforceImplicationRule(rule, g, d) == EnforceImplicationFrom(rule, g, 1, d)

\* rule.actions.forEach(applyCellAction) of createImplicationViolation: every action,
\* whatever status it reports.
RECURSIVE ApplyEveryActionFrom(_, _, _, _)
ApplyEveryActionFrom(actions, k, cell, d) ==
    IF k > Len(actions) THEN {cell}
    ELSE UNION {ApplyEveryActionFrom(actions, k + 1, r.cell, d) :
                    r \in applyCellAction(actions[k], cell, d)}

verifyCellAction(action, cell, d) ==
    CASE action.action = "setCellProperty" ->
            cell[action.property] = resolveValue(action.value, CellContext(cell, d))
      [] action.action = "requireRegion" ->
            isInRegion(cell,
                       resolveValue(action.direction, CellContext(cell, d)),
                       resolveValue(action.size, CellContext(cell, d)))
      [] OTHER -> TRUE

\* A cell for which the antecedent holds and every action verifies.
ImplicationHoldsAt(rule, cell, d) ==
    /\ evaluateCondition(rule.when, CellContext(cell, d))
    /\ \A k \in 1..Len(rule.actions) : verifyCellAction(rule.actions[k], cell, d)

\* The set of grids createImplicationViolation can leave.
createImplicationViolation(rule, g, d) ==
    LET found == {i \in 1..Len(g) : ImplicationHoldsAt(rule, g[i], d)}
        target == IF found # {} THEN CHOOSE i \in found : \A j \in found : i <= j
                  ELSE IF Len(g) > 0 THEN 1 ELSE 0
        prepared ==
            IF found # {} \/ target = 0 THEN {g}
            ELSE {[g EXCEPT ![target] = c2] :
                    c2 \in UNION {ApplyEveryActionFrom(rule.actions, 1, c1, d) :
                                    c1 \in ensureCellSatisfiesCondition(rule.when, g[target], d)}}
    IN  IF target # 0 /\ rule.violation.action # "absent"
        THEN UNION {{[h EXCEPT ![target] = r.cell] :
                        r \in applyCellAction(rule.violation, h[target], d)} : h \in prepared}
        ELSE prepared

verifyImplicationRule(rule, g, d) ==
    \A i \in 1..Len(g) :
        \/ ~ evaluateCondition(rule.when, CellContext(g[i], d))
        \/ \A k \in 1..Len(rule.actions) : verifyCellAction(rule.actions[k], g[i], d)

\* The satisfy actions, in order, on one neighbor.
RECURSIVE EnsureNeighborFrom(_, _, _, _)
EnsureNeighborFrom(actions, k, neighbor, d) ==
    IF k > Len(actions) THEN {neighbor}
    ELSE UNION {EnsureNeighborFrom(actions, k + 1, n, d) :
                    n \in ensureNeighbor(actions[k], neighbor, d)}

RECURSIVE EnforceNeighborFrom(_, _, _, _)
EnforceNeighborFrom(rule, g, i, d) ==
    IF i > Len(g) THEN {g}
    ELSE IF ~ evaluateCondition(rule.when, CellContext(g[i], d))
    THEN EnforceNeighborFrom(rule, g, i + 1, d)
    ELSE LET direction == resolveValue(rule.neighbor.direction, CellContext(g[i], d))
             neighbors == getNeighborCells(g, g[i], direction)
         IN  IF Len(neighbors) = 0
             THEN UNION {EnforceNeighborFrom(rule, [g EXCEPT ![i] = c], i + 1, d) :
                            c \in applyBreakAntecedent(rule, g[i], d)}
             ELSE UNION {EnforceNeighborFrom(rule, [g EXCEPT ![neighbors[1]] = n], i + 1, d) :
                            n \in EnsureNeighborFrom(rule.neighbor.satisfy, 1, g[neighbors[1]], d)}

\* The set of grids enforceNeighborRule can leave.
enforceNeighborRule(rule, g, d) == EnforceNeighborFrom(rule, g, 1, d)

neighborConditionsSatisfied(rule, cell, neighbor, d) ==
    \A k \in 1..Len(rule.neighbor.conditions) :
        evaluateCondition(rule.neighbor.conditions[k], NeighborContext(cell, neighbor, d))

\* The first neighbor of cell i (an index) that meets the rule's conditions, 0 when none.
MatchingNeighbor(rule, g, i, d) ==
    LET neighbors == getNeighborCells(g, g[i],
                        resolveValue(rule.neighbor.direction, CellContext(g[i], d)))
        hits == {k \in 1..Len(neighbors) :
                    neighborConditionsSatisfied(rule, g[i], g[neighbors[k]], d)}
    IN  IF hits = {} THEN 0 ELSE neighbors[CHOOSE k \in hits : \A j \in hits : k <= j]

\* The set of grids createNeighborViolation can leave.
createNeighborViolation(rule, g, d) ==
    LET found == {i \in 1..Len(g) :
                    /\ evaluateCondition(rule.when, CellContext(g[i], d))
                    /\ MatchingNeighbor(rule, g, i, d) # 0}
        Violate(h, n) ==
            IF rule.neighbor.violation.action # "absent"
            THEN {[h EXCEPT ![n] = x] : x \in ensureNeighbor(rule.neighbor.violation, h[n], d)}
            ELSE {h}
    IN  IF found # {}
        THEN LET candidate == CHOOSE i \in found : \A j \in found : i <= j
             IN  Violate(g, MatchingNeighbor(rule, g, candidate, d))
        ELSE IF Len(g) = 0 THEN {g}
        ELSE UNION {
                LET h == [g EXCEPT ![1] = c]
                    neighbors == getNeighborCells(h, c,
                                    resolveValue(rule.neighbor.direction, CellContext(c, d)))
                IN  IF Len(neighbors) = 0
                    THEN {[h EXCEPT ![1] = b] : b \in applyBreakAntecedent(rule, c, d)}
                    ELSE UNION {Violate([h EXCEPT ![neighbors[1]] = n], neighbors[1]) :
                                    n \in EnsureNeighborFrom(rule.neighbor.satisfy, 1,
                                                             h[neighbors[1]], d)} :
                c \in ensureCellSatisfiesCondition(rule.when, g[1], d)}

verifyNeighborRule(rule, g, d) ==
    \A i \in 1..Len(g) :
        \/ ~ evaluateCondition(rule.when, CellContext(g[i], d))
        \/ MatchingNeighbor(rule, g, i, d) # 0

\* enforceRules: the set of [threw, grid] it can end with; it throws on a rule type
\* it does not know, after the rules before it were enforced.
RECURSIVE EnforceRulesFrom(_, _, _, _)
EnforceRulesFrom(rules, k, g, d) ==
    IF k > Len(rules) THEN {[threw |-> FALSE, grid |-> g]}
    ELSE IF rules[k].type = "implication"
    THEN UNION {EnforceRulesFrom(rules, k + 1, h, d) : h \in enforceImplicationRule(rules[k], g, d)}
    ELSE IF rules[k].type = "neighborRequirement"
    THEN UNION {EnforceRulesFrom(rules, k + 1, h, d) : h \in enforceNeighborRule(rules[k], g, d)}
    ELSE {[threw |-> TRUE, grid |-> g]}

\* An enforcement that takes the rules from the last declared to the first (what
\* enforceRules does not).
enforceRulesLastFirst(definition, g, d) ==
    EnforceRulesFrom([k \in 1..Len(definition.rules) |->
                         definition.rules[Len(definition.rules) + 1 - k]], 1, g, d)

enforceRules(definition, g, d) == EnforceRulesFrom(definition.rules, 1, g, d)

\* createViolation: the set of [rule, grid] it can end with, rule being the index of the
\* rule it drew (0 when the definition has none).
createViolation(definition, g, d) ==
    IF Len(definition.rules) = 0 THEN {[rule |-> 0, grid |-> g]}
    ELSE UNION {
            LET rule == definition.rules[k] IN
            IF rule.type = "implication"
            THEN {[rule |-> k, grid |-> h] : h \in createImplicationViolation(rule, g, d)}
            ELSE IF rule.type = "neighborRequirement"
            THEN {[rule |-> k, grid |-> h] : h \in createNeighborViolation(rule, g, d)}
            ELSE {[rule |-> k, grid |-> g]} :
            k \in 1..Len(definition.rules)}

verifyRules(definition, g, d) ==
    \A k \in 1..Len(definition.rules) :
        LET rule == definition.rules[k] IN
        IF rule.type = "implication" THEN verifyImplicationRule(rule, g, d)
        ELSE IF rule.type = "neighborRequirement" THEN verifyNeighborRule(rule, g, d)
        ELSE TRUE

(***************************************************************************)
(* createTemplateFromDefinition: the facade of one template definition.    *)
(***************************************************************************)
generateStatementsThrows(definition) == generateDetailsThrows(definition)

\* The set of statement data generateStatements can return.
generateStatements(definition) ==
    {[naturalLanguageStatement |-> fillTemplate(definition.statement.text, d),
      formalFOLStatement |-> fillTemplate(definition.statement.fol, d),
      hint |-> fillTemplate(definition.statement.hint, d),
      details |-> d] : d \in generateDetails(definition)}

\* generateGrid on the random grid g0: the set of [threw, grid, enforced, rule] it can
\* end with; enforced is the grid as enforceRules left it, rule the index of the rule
\* createViolation drew (0: none was drawn).
generateGrid(definition, sat, d, g0) ==
    UNION {
        IF e.threw THEN {[threw |-> TRUE, grid |-> e.grid, enforced |-> e.grid, rule |-> 0]}
        ELSE IF sat THEN {[threw |-> FALSE, grid |-> e.grid, enforced |-> e.grid, rule |-> 0]}
        ELSE {[threw |-> FALSE, grid |-> v.grid, enforced |-> e.grid, rule |-> v.rule] :
                v \in createViolation(definition, e.grid, d)} :
        e \in enforceRules(definition, g0, d)}

\* A verification that repairs the grid it judges (what verifyStatementWithGrid does not).
verifyAndEnforce(definition, g, d) ==
    [result |-> verifyRules(definition, g, d),
     grid |-> (CHOOSE e \in enforceRules(definition, g, d) : TRUE).grid,
     details |-> d]

\* verifyStatementWithGrid: its result, and the grid and the details as the call
\* leaves them (both are passed by reference).
verifyStatementWithGrid(definition, g, d) ==
    [result |-> verifyRules(definition, g, d), grid |-> g, details |-> d]

(***************************************************************************)
(* scripts/templateBanks/templates.json: one array of template definitions *)
(* per difficulty key.  The definitions below are written in the schema    *)
(* the engine reads; they are the inputs the model explores.               *)
(***************************************************************************)
PH(key) == [kind |-> "placeholder", key |-> key]
CP(property) == [kind |-> "cellProperty", property |-> property]
NP(property) == [kind |-> "neighborProperty", property |-> property]
Const(value) == [kind |-> "constant", value |-> value]

Equals(l, r) == [operator |-> "equals", left |-> l, right |-> r]
NotEquals(l, r) == [operator |-> "notEquals", left |-> l, right |-> r]
GreaterThan(l, r) == [operator |-> "greaterThan", left |-> l, right |-> r]
All(conditions) == [operator |-> "all", conditions |-> conditions]
InRegion(direction, size) == [operator |-> "inRegion", direction |-> direction, size |-> size]

SetCell(property, value) ==
    [action |-> "setCellProperty", property |-> property, value |-> value]
SetCellDistinct(property, from) ==
    [action |-> "setCellPropertyDistinct", property |-> property, fromPlaceholder |-> from]
RequireRegion(direction, size) ==
    [action |-> "requireRegion", direction |-> direction, size |-> size]
SetNeighbor(property, value) ==
    [action |-> "setNeighborProperty", property |-> property, value |-> value]
SetNeighborDistinct(property, from) ==
    [action |-> "setNeighborPropertyDistinct", property |-> property, fromPlaceholder |-> from]
EnsureNeighborNumber(comparison, placeholder) ==
    [action |-> "ensureNeighborNumber", comparison |-> comparison, placeholder |-> placeholder]
SetNeighborNumberBreaking(comparison, placeholder) ==
    [action |-> "setNeighborNumberBreaking", comparison |-> comparison,
     placeholder |-> placeholder]

noNeighbor ==
    [direction |-> Const("none"), conditions |-> <<>>, satisfy |-> <<>>, violation |-> noAction]

Implication(when, actions, breakAntecedent, violation) ==
    [type |-> "implication", when |-> when, actions |-> actions,
     breakAntecedent |-> breakAntecedent, violation |-> violation, neighbor |-> noNeighbor]

NeighborRequirement(when, direction, conditions, satisfy, violation, breakAntecedent) ==
    [type |-> "neighborRequirement", when |-> when, actions |-> <<>>,
     breakAntecedent |-> breakAntecedent, violation |-> noAction,
     neighbor |-> [direction |-> direction, conditions |-> conditions,
                   satisfy |-> satisfy, violation |-> violation]]

ColorName(key, source) ==
    [type |-> "colorName", key |-> key, source |-> source, directionKey |-> "",
     sizeKey |-> "", template |-> <<>>]
RegionDescription(key, directionKey, sizeKey) ==
    [type |-> "regionDescription", key |-> key, source |-> "",
     directionKey |-> directionKey, sizeKey |-> sizeKey, template |-> <<>>]

Choice(key, options) == [Placeholder(key, "choice") EXCEPT !.options = options]
NumberIn(key, min, max) ==
    [Placeholder(key, "number") EXCEPT !.min = <<min>>, !.max = <<max>>]
IntIn(key, min, max) == [Placeholder(key, "int") EXCEPT !.min = <<min>>, !.max = <<max>>]

Template(placeholders, computedFields, text, fol, hint, rules) ==
    [placeholders |-> placeholders, computedFields |-> computedFields,
     statement |-> [text |-> text, fol |-> fol, hint |-> hint], rules |-> rules]

\* "All {S}s are {CName}."
allShapeColor(shapeDef, colorDef) ==
    Template(<<shapeDef, colorDef>>, <<ColorName("CName", "C")>>,
        <<Lit("All "), Key("S"), Lit("s are "), Key("CName"), Lit(".")>>,
        <<Lit("Ax ("), Key("S"), Lit("(x) -> "), Key("CName"), Lit("(x))")>>,
        <<Lit("Check every "), Key("S"), Lit(".")>>,
        <<Implication(Equals(CP("shape"), PH("S")),
                      <<SetCell("color", PH("C"))>>,
                      noAction,
                      SetCellDistinct("color", "C"))>>)

\* "No {S} is {CName}."
noShapeColor(shapeDef, colorDef) ==
    Template(<<shapeDef, colorDef>>, <<ColorName("CName", "C")>>,
        <<Lit("No "), Key("S"), Lit(" is "), Key("CName"), Lit(".")>>,
        <<Lit("Ax ("), Key("S"), Lit("(x) -> ~"), Key("CName"), Lit("(x))")>>,
        <<>>,
        <<Implication(Equals(CP("shape"), PH("S")),
                      <<SetCellDistinct("color", "C")>>,
                      noAction,
                      SetCell("color", PH("C")))>>)

\* "Every {S} has the number {N}."
shapeNumber(shapeDef, numberDef) ==
    Template(<<shapeDef, numberDef>>, <<>>,
        <<Lit("Every "), Key("S"), Lit(" has the number "), NumKey("N"), Lit(".")>>,
        <<Lit("Ax ("), Key("S"), Lit("(x) -> Num(x) = "), NumKey("N"), Lit(")")>>,
        <<Lit("Read the numbers.")>>,
        <<Implication(Equals(CP("shape"), PH("S")),
                      <<SetCell("number", PH("N"))>>,
                      noAction,
                      SetCellDistinct("number", "N"))>>)

\* "Every {S} has a {CName} cell to its {D}."
neighborColor(shapeDef, colorDef, directionDef) ==
    Template(<<shapeDef, colorDef, directionDef>>, <<ColorName("CName", "C")>>,
        <<Lit("Every "), Key("S"), Lit(" has a "), Key("CName"), Lit(" cell to its "),
          Key("D"), Lit(".")>>,
        <<Lit("Ax ("), Key("S"), Lit("(x) -> Ey ("), Key("D"), Lit("Of(y, x) & "),
          Key("CName"), Lit("(y)))")>>,
        <<>>,
        <<NeighborRequirement(Equals(CP("shape"), PH("S")), PH("D"),
                              <<Equals(NP("color"), PH("C"))>>,
                              <<SetNeighbor("color", PH("C"))>>,
                              SetNeighborDistinct("color", "C"),
                              SetCellDistinct("shape", "S"))>>)

\* "Every {S} has another {S} to its right."
neighborSameShape ==
    Template(<<Placeholder("S", "shape")>>, <<>>,
        <<Lit("Every "), Key("S"), Lit(" has another "), Key("S"), Lit(" to its right.")>>,
        <<Lit("Ax ("), Key("S"), Lit("(x) -> Ey (RightOf(y, x) & "), Key("S"), Lit("(y)))")>>,
        <<>>,
        <<NeighborRequirement(Equals(CP("shape"), PH("S")), Const("right"),
                              <<Equals(NP("shape"), PH("S"))>>,
                              <<SetNeighbor("shape", PH("S"))>>,
                              SetNeighborDistinct("shape", "S"),
                              SetCellDistinct("shape", "S"))>>)

\* "Every cell that is not a {S} is {CName}."
otherShapesColor ==
    Template(<<Placeholder("S", "shape"), Choice("C", <<"#6ecbff">>)>>,
        <<ColorName("CName", "C")>>,
        <<Lit("Every cell that is not a "), Key("S"), Lit(" is "), Key("CName"), Lit(".")>>,
        <<Lit("Ax (~"), Key("S"), Lit("(x) -> "), Key("CName"), Lit("(x))")>>,
        <<>>,
        <<Implication(NotEquals(CP("shape"), PH("S")),
                      <<SetCell("color", PH("C"))>>,
                      noAction,
                      SetCellDistinct("color", "C"))>>)

\* "Every {S} lies in the {Region}."
shapeInRegion ==
    Template(<<Placeholder("S", "shape"), Choice("D", <<"left", "bottom">>),
               IntIn("K", 1, 1)>>,
        <<RegionDescription("Region", "D", "K")>>,
        <<Lit("Every "), Key("S"), Lit(" lies in the "), TextKey("Region"), Lit(".")>>,
        <<Lit("Ax ("), Key("S"), Lit("(x) -> In(x, "), TextKey("Region"), Lit("))")>>,
        <<>>,
        <<Implication(Equals(CP("shape"), PH("S")),
                      <<RequireRegion(PH("D"), PH("K"))>>,
                      SetCellDistinct("shape", "S"),
                      noAction)>>)

\* "Every {S} in the {Region} is {CName}."
shapeInRegionColor ==
    Template(<<Choice("S", <<"square">>), Choice("C", <<"#ff82a9">>),
               Choice("D", <<"left", "right">>), IntIn("K", 1, 1)>>,
        <<ColorName("CName", "C"), RegionDescription("Region", "D", "K")>>,
        <<Lit("Every "), Key("S"), Lit(" in the "), TextKey("Region"), Lit(" is "),
          Key("CName"), Lit(".")>>,
        <<Lit("Ax (("), Key("S"), Lit("(x) & In(x, "), TextKey("Region"), Lit(")) -> "),
          Key("CName"), Lit("(x))")>>,
        <<>>,
        <<Implication(All(<<Equals(CP("shape"), PH("S")), InRegion(PH("D"), PH("K"))>>),
                      <<SetCell("color", PH("C"))>>,
                      noAction,
                      SetCellDistinct("color", "C"))>>)

\* "Every {S} has another {S} to its {D}."
neighborSameShapeTo(directionDef) ==
    Template(<<Placeholder("S", "shape"), directionDef>>, <<>>,
        <<Lit("Every "), Key("S"), Lit(" has another "), Key("S"), Lit(" to its "),
          Key("D"), Lit(".")>>,
        <<Lit("Ax ("), Key("S"), Lit("(x) -> Ey ("), Key("D"), Lit("Of(y, x) & "),
          Key("S"), Lit("(y)))")>>,
        <<>>,
        <<NeighborRequirement(Equals(CP("shape"), PH("S")), PH("D"),
                              <<Equals(NP("shape"), PH("S"))>>,
                              <<SetNeighbor("shape", PH("S"))>>,
                              SetNeighborDistinct("shape", "S"),
                              SetCellDistinct("shape", "S"))>>)

\* "Every {S} is {CName}, lies in the {Region} and has the number {N}."
colorRegionNumber(breakAntecedent) ==
    Template(<<Choice("S", <<"circle">>), Choice("C", <<"#6ecbff">>),
               Choice("D", <<"left", "top">>), IntIn("K", 1, 1), NumberIn("N", 5, 5)>>,
        <<ColorName("CName", "C"), RegionDescription("Region", "D", "K")>>,
        <<Lit("Every "), Key("S"), Lit(" is "), Key("CName"), Lit(", lies in the "),
          TextKey("Region"), Lit(" and has the number "), Key("N"), Lit(".")>>,
        <<Lit("Ax ("), Key("S"), Lit("(x) -> ("), Key("CName"), Lit("(x) & In(x, "),
          TextKey("Region"), Lit(") & Number(x, "), Key("N"), Lit(")))")>>,
        <<>>,
        <<Implication(Equals(CP("shape"), PH("S")),
                      <<SetCell("color", PH("C")), RequireRegion(PH("D"), PH("K")),
                        SetCell("number", PH("N"))>>,
                      breakAntecedent,
                      noAction)>>)

\* "Every {S} has a {CName} cell to its left, and all {T}s are {EName}.": two rules
\* that write the color of the same cell.
neighborColorThenShapeColor ==
    Template(<<Choice("S", <<"circle">>), Choice("C", <<"#ffd966">>),
               Choice("T", <<"square">>), Choice("E", <<"#6ecbff">>)>>,
        <<ColorName("CName", "C"), ColorName("EName", "E")>>,
        <<Lit("Every "), Key("S"), Lit(" has a "), Key("CName"),
          Lit(" cell to its left, and all "), Key("T"), Lit("s are "), Key("EName"),
          Lit(".")>>,
        <<Lit("Ax ("), Key("S"), Lit("(x) -> Ey (leftOf(y, x) & "), Key("CName"),
          Lit("(y))) & Ax ("), Key("T"), Lit("(x) -> "), Key("EName"), Lit("(x))")>>,
        <<>>,
        <<NeighborRequirement(Equals(CP("shape"), PH("S")), Const("left"),
                              <<Equals(NP("color"), PH("C"))>>,
                              <<SetNeighbor("color", PH("C"))>>,
                              SetNeighborDistinct("color", "C"),
                              SetCellDistinct("shape", "S")),
          Implication(Equals(CP("shape"), PH("T")),
                      <<SetCell("color", PH("E"))>>,
                      noAction,
                      SetCellDistinct("color", "E"))>>)

\* "Every {S} has to its right a cell whose number is <comparison> {N}."
neighborNumber(comparison) ==
    Template(<<Choice("S", <<"circle">>), NumberIn("N", 1, 10)>>, <<>>,
        <<Lit("Every "), Key("S"), Lit(" has to its right a cell whose number is "),
          Lit(comparison), Lit(" "), NumKey("N"), Lit(".")>>,
        <<Lit("Ax ("), Key("S"), Lit("(x) -> Ey (rightOf(y, x) & "), Lit(comparison),
          Lit("(Num(y), "), NumKey("N"), Lit(")))")>>,
        <<>>,
        <<NeighborRequirement(Equals(CP("shape"), PH("S")), Const("right"),
                              <<[operator |-> comparison, left |-> NP("number"),
                                 right |-> PH("N")]>>,
                              <<EnsureNeighborNumber(comparison, "N")>>,
                              SetNeighborNumberBreaking(comparison, "N"),
                              SetCellDistinct("shape", "S"))>>)

\* "Every cell whose number is greater than {N} is {CName}."
numberAboveColor ==
    Template(<<NumberIn("N", 9, 10), Choice("C", <<"#b07bff">>)>>,
        <<ColorName("CName", "C")>>,
        <<Lit("Every cell whose number is greater than "), NumKey("N"), Lit(" is "),
          Key("CName"), Lit(".")>>,
        <<Lit("Ax (Num(x) > "), NumKey("N"), Lit(" -> "), Key("CName"), Lit("(x))")>>,
        <<>>,
        <<Implication(GreaterThan(CP("number"), PH("N")),
                      <<SetCell("color", PH("C"))>>,
                      noAction,
                      SetCellDistinct("color", "C"))>>)

\* A definition whose placeholder type the engine does not know.
unknownPlaceholderType ==
    Template(<<Placeholder("P", "direction")>>, <<>>,
        <<Lit("Every cell points "), Key("P"), Lit(".")>>,
        <<Lit("Ax Points(x, "), Key("P"), Lit(")")>>,
        <<>>,
        <<>>)

\* A definition whose rule type the engine does not know.
unknownRuleType ==
    Template(<<Choice("S", <<"circle">>)>>, <<>>,
        <<Lit("There is exactly one "), Key("S"), Lit(".")>>,
        <<Lit("E!x "), Key("S"), Lit("(x)")>>,
        <<>>,
        <<[Implication(noCondition, <<>>, noAction, noAction) EXCEPT !.type = "exactlyOne"]>>)

definitions ==
    [easy |->
        <<allShapeColor(Choice("S", <<"circle">>), Choice("C", <<"#ff82a9">>)),
          allShapeColor(Choice("S", <<"triangle">>), Choice("C", <<"#7ed957">>)),
          shapeNumber(Choice("S", <<"square">>), NumberIn("N", 2, 2)),
          shapeNumber(Choice("S", <<"circle">>), NumberIn("N", 7, 7))>>,
     medium |->
        <<allShapeColor(Placeholder("S", "shape"), Placeholder("C", "color")),
          noShapeColor(Placeholder("S", "shape"), Choice("C", <<"#ff82a9", "#7ed957">>)),
          neighborColor(Placeholder("S", "shape"), Choice("C", <<"#7ed957">>),
                        Choice("D", <<"right", "left", "above">>)),
          neighborSameShape,
          otherShapesColor,
          shapeInRegion,
          allShapeColor(Choice("S", <<"circle", "square">>), Choice("C", <<"#ff82a9">>)),
          noShapeColor(Choice("S", <<"triangle">>), Choice("C", <<"#7ed957">>)),
          shapeNumber(Choice("S", <<"circle">>), NumberIn("N", 7, 8)),
          neighborColor(Choice("S", <<"square">>), Choice("C", <<"#ffd966">>),
                        Choice("D", <<"right">>)),
          shapeInRegionColor,
          neighborSameShapeTo(Choice("D", <<"left", "above">>)),
          colorRegionNumber(SetCellDistinct("shape", "S")),
          colorRegionNumber(noAction),
          neighborColorThenShapeColor,
          neighborNumber("greaterThan"), neighborNumber("greaterOrEqual"),
          neighborNumber("lessThan"), neighborNumber("lessOrEqual"),
          numberAboveColor>>,
     hard |->
        <<allShapeColor(Choice("S", <<"circle">>), Choice("C", <<"#ff82a9">>)),
          allShapeColor(Choice("S", <<"circle">>), Choice("C", <<"#ff82a9">>)),
          shapeNumber(Choice("S", <<"square">>), NumberIn("N", 2, 2)),
          shapeNumber(Choice("S", <<"circle">>), NumberIn("N", 7, 7)),
          unknownPlaceholderType,
          unknownRuleType>>]

difficulties == {"easy", "medium", "hard"}

(***************************************************************************)
(* createRandomGrid.  A draw is what the three getRandomElement calls of   *)
(* one cell return; the model explores the grids whose cells are drawn     *)
(* from a few seed cells.                                                  *)
(***************************************************************************)
Cell(shape, color, number) == [shape |-> shape, color |-> color, number |-> number]

seedCells == {Cell("circle", "#ff82a9", 3), Cell("square", "#7ed957", 8),
              Cell("circle", "#7ed957", 8)}

\* The grid Array.from builds from the draws (a function of idx in 0..gridSize^2-1).
gridOfDraws(draws) ==
    [i \in 1..(gridSize * gridSize) |->
        [shape |-> draws[i - 1].shape, color |-> draws[i - 1].color,
         number |-> draws[i - 1].number,
         position |-> [row |-> (i - 1) \div gridSize, col |-> (i - 1) % gridSize]]]

\* The set of grids createRandomGrid can return, its draws being among drawings.
createRandomGrid(drawings) == {gridOfDraws(draws) : draws \in drawings}

\* Spec draws every cell from seedCells.
engineDrawings == [0..(gridSize * gridSize - 1) -> seedCells]

\* SpecGame draws the cells of gameCells in turn, starting from any of gameOffsets.
gameCells ==
    <<Cell("circle", "#7ed957", 3), Cell("triangle", "#7ed957", 1),
      Cell("square", "#b07bff", 2), Cell("triangle", "#ff82a9", 7),
      Cell("circle", "#ff82a9", 7)>>
gameOffsets == {0, 1}
gameDrawings ==
    {[idx \in 0..(gridSize * gridSize - 1) |-> gameCells[((idx + k) % Len(gameCells)) + 1]] :
        k \in gameOffsets}

(***************************************************************************)
(* main.js: the state of the session controller and of the page.           *)
(***************************************************************************)
\* correctIndex: null
nullIndex == -2
\* correctStatement: null
nullStatement ==
    [naturalLanguageStatement |-> <<undefined>>, formalFOLStatement |-> <<undefined>>,
     details |-> <<>>, hint |-> <<>>]

initialCurrentState ==
    [grid |-> <<>>, correctStatement |-> nullStatement, options |-> <<>>,
     correctIndex |-> nullIndex, value |-> FALSE, difficulty |-> "easy", hint |-> <<>>,
     puzzleNumber |-> 0, correctCount |-> 0, currentStreak |-> 0, isLocked |-> FALSE]

\* The page: the option buttons (the statement each carries), whether they are
\* disabled, the buttons marked option-correct, option-picked and option-incorrect,
\* whether the Next button and the difficulty select are disabled, and the grid
\* displayGrid drew.
initialDom ==
    [buttons |-> <<>>, buttonsDisabled |-> FALSE, markedCorrect |-> {}, markedPicked |-> {},
     markedIncorrect |-> {}, controlsDisabled |-> FALSE, grid |-> <<>>]

\* What the model remembers of the rounds: how the last initializeGame ended, which
\* template it drew as the correct one, the template and details of every statement
\* generateIncorrectStatements returned, and the ground-truth statement of the puzzle
\* the page displays.
noRound == [outcome |-> "none", template |-> 0, distractors |-> {}, shown |-> <<undefined>>]

GameIdle ==
    /\ currentState = initialCurrentState
    /\ cachedTemplates = FALSE
    /\ dom = initialDom
    /\ gpc = "boot"
    /\ lastRound = noRound
    /\ changes = 0

(***************************************************************************)
(* Spec: the facade of one template definition, called the way its         *)
(* callers do: generateStatements, then generateGrid with the details,     *)
(* then verifyStatementWithGrid on the grid, once and again.               *)
(***************************************************************************)
definition == definitions[tier][tpl]

EngineIdle ==
    /\ tier = "easy"
    /\ tpl = 1
    /\ details = <<>>
    /\ grid = <<>>
    /\ enforced = <<>>
    /\ chosenRule = 0
    /\ satisfies = TRUE
    /\ verdict = FALSE
    /\ pc = "start"

Init == EngineIdle /\ GameIdle

GenerateStatements ==
    /\ pc = "start"
    /\ \E t \in difficulties : \E i \in 1..Len(definitions[t]) :
          /\ tier' = t
          /\ tpl' = i
          /\ IF generateStatementsThrows(definitions[t][i])
             THEN pc' = "threw" /\ details' = details
             ELSE /\ pc' = "stated"
                  /\ \E sd \in generateStatements(definitions[t][i]) : details' = sd.details
    /\ UNCHANGED <<grid, enforced, chosenRule, satisfies, verdict>>
    /\ UNCHANGED gameVars

GenerateGrid ==
    /\ pc = "stated"
    /\ \E sat \in BOOLEAN : \E g0 \in createRandomGrid(engineDrawings) :
        \E r \in generateGrid(definition, sat, details, g0) :
          /\ satisfies' = sat
          /\ IF r.threw
             THEN pc' = "threw" /\ UNCHANGED <<grid, enforced, chosenRule>>
             ELSE /\ pc' = "generated"
                  /\ grid' = r.grid
                  /\ enforced' = r.enforced
                  /\ chosenRule' = r.rule
    /\ UNCHANGED <<tier, tpl, details, verdict>>
    /\ UNCHANGED gameVars

VerifyStatementWithGrid ==
    /\ pc \in {"generated", "verified"}
    /\ LET r == verifyStatementWithGrid(definition, grid, details)
       IN  /\ verdict' = r.result
           /\ grid' = r.grid
           /\ details' = r.details
    /\ pc' = IF pc = "generated" THEN "verified" ELSE "verifiedAgain"
    /\ UNCHANGED <<tier, tpl, enforced, chosenRule, satisfies>>
    /\ UNCHANGED gameVars

\* verifyStatementWithGrid on a grid the template did not generate, the way
\* generateIncorrectStatements calls it (the grid of the round, the details the
\* template just generated).
VerifyStatementWithOtherGrid ==
    /\ pc = "stated"
    /\ \E g0 \in createRandomGrid(engineDrawings) :
          LET r == verifyStatementWithGrid(definition, g0, details)
          IN  /\ verdict' = r.result
              /\ grid' = r.grid
              /\ details' = r.details
              /\ enforced' = g0
    /\ pc' = "verifiedOther"
    /\ UNCHANGED <<tier, tpl, chosenRule, satisfies>>
    /\ UNCHANGED gameVars

Next ==
    \/ GenerateStatements
    \/ GenerateGrid
    \/ VerifyStatementWithGrid
    \/ VerifyStatementWithOtherGrid

Spec == Init /\ [][Next]_vars

(***************************************************************************)
(* statementGenerator.js: the loader.                                      *)
(***************************************************************************)
\* A loader that returns no template for a key the bank does not have (what
\* getTemplatesByDifficulty does not do).
getTemplatesOfTier(difficulty) ==
    IF difficulty \in DOMAIN definitions THEN definitions[difficulty] ELSE <<>>

\* getTemplatesByDifficulty has no throw of its own: with the definitions loaded it
\* returns an array for every key.
getTemplatesByDifficultyThrows(difficulty) == FALSE

\* getTemplatesByDifficulty, once the definitions are loaded.
getTemplatesByDifficulty(difficulty) ==
    IF difficulty \in DOMAIN definitions THEN definitions[difficulty]
    ELSE IF "easy" \in DOMAIN definitions THEN definitions["easy"]
    ELSE <<>>

(***************************************************************************)
(* main.js: the session controller.                                        *)
(***************************************************************************)
\* The difficulty keys the select offers.
difficultyOptions == {"easy", "hard", "expert"}

resetStats(cs) == [cs EXCEPT !.puzzleNumber = 0, !.correctCount = 0, !.currentStreak = 0]

\* array.findIndex(o => o.naturalLanguageStatement === text): 0-based, -1 when none.
findIndex(options, text) ==
    LET hits == {i \in 1..Len(options) : options[i].naturalLanguageStatement = text}
    IN  IF hits = {} THEN -1 ELSE (CHOOSE i \in hits : \A j \in hits : i <= j) - 1

\* Array.from(new Set(texts)).map(nl => options.find(...)): for every text, in the
\* order of first appearance, the first option that carries it.
RECURSIVE UniqueFrom(_, _, _)
UniqueFrom(options, k, acc) ==
    IF k > Len(options) THEN acc
    ELSE IF findIndex(acc, options[k].naturalLanguageStatement) # -1
    THEN UniqueFrom(options, k + 1, acc)
    ELSE UniqueFrom(options, k + 1, Append(acc, options[k]))

\* The options as they were gathered (what initializeGame does not keep).
allOptions(options) == options

uniqueOptions(options) == UniqueFrom(options, 1, <<>>)

\* shuffleArray (Fisher-Yates): the set of orders it can leave the array in.
Swap(a, i, j) == [a EXCEPT ![i + 1] = a[j + 1], ![j + 1] = a[i + 1]]

RECURSIVE ShuffleFrom(_, _)
ShuffleFrom(a, i) ==
    IF i < 1 THEN {a}
    ELSE UNION {ShuffleFrom(Swap(a, i, j), i - 1) : j \in 0..i}

shuffleArray(a) == IF Len(a) = 0 THEN {a} ELSE ShuffleFrom(a, Len(a) - 1)

\* A loop that keeps every statement it generates (what the loop does not).
keepsEveryStatement(definitionOfTemplate, g, d) == TRUE

\* generateIncorrectStatements keeps a statement when the grid does not satisfy it.
keepsStatement(definitionOfTemplate, g, d) ==
    ~ verifyStatementWithGrid(definitionOfTemplate, g, d).result

\* generateIncorrectStatements: the ways its loop can end, from the statements gathered
\* so far and the templates used so far.  Every pass draws a template; a used one is
\* skipped, a new one generates a statement and is kept when the grid does not
\* satisfy it.  The loop returns with three statements, or an exception leaves it, or
\* no draw can ever add a statement and it runs forever.
RECURSIVE IncorrectFrom(_, _, _, _, _)
IncorrectFrom(templateBank, g, incorrectStatements, usedTemplates, picked) ==
    IF Len(incorrectStatements) >= 3
    THEN {[kind |-> "returned", statements |-> incorrectStatements, picked |-> picked]}
    ELSE LET fresh == {i \in 1..Len(templateBank) : i \notin usedTemplates}
             throwing == {i \in fresh : generateStatementsThrows(templateBank[i])}
             kept == {<<i, sd>> \in UNION {{<<i, sd>> : sd \in generateStatements(templateBank[i])} :
                                              i \in fresh \ throwing} :
                        keepsStatement(templateBank[i], g, sd.details)}
         IN  (IF throwing # {}
              THEN {[kind |-> "threw", statements |-> incorrectStatements, picked |-> picked]}
              ELSE {})
             \cup
             (IF throwing = {} /\ kept = {}
              THEN {[kind |-> "looping", statements |-> incorrectStatements, picked |-> picked]}
              ELSE {})
             \cup
             UNION {IncorrectFrom(templateBank, g,
                        Append(incorrectStatements,
                               [naturalLanguageStatement |-> k[2].naturalLanguageStatement,
                                formalFOLStatement |-> k[2].formalFOLStatement,
                                details |-> k[2].details]),
                        usedTemplates \cup {k[1]},
                        picked \cup {[template |-> k[1], details |-> k[2].details]}) :
                    k \in kept}

generateIncorrectStatements(templateBank, correctTemplate, g) ==
    IncorrectFrom(templateBank, g, <<>>, {correctTemplate}, {})

\* displayOptions: one enabled button per option, carrying its statement.
displayOptions(d, options) ==
    [d EXCEPT !.buttons = [i \in 1..Len(options) |-> options[i].naturalLanguageStatement],
              !.buttonsDisabled = FALSE, !.markedCorrect = {}, !.markedPicked = {},
              !.markedIncorrect = {}]

toggleControlsDuringLoad(d, isLoading) == [d EXCEPT !.controlsDisabled = isLoading]

\* The catch and finally blocks of initializeGame.
RoundFailed(cs, d, template) ==
    [cs |-> [cs EXCEPT !.isLocked = FALSE], dom |-> toggleControlsDuringLoad(d, FALSE),
     gpc |-> "idle",
     round |-> [outcome |-> "failed", template |-> template, distractors |-> {},
                shown |-> lastRound.shown]]

\* Steps 6 and 7 of initializeGame, for one order the shuffle leaves.
RoundDisplayed(cs, d, template, inc, shuffled) ==
    LET cs2 == [cs EXCEPT !.options = shuffled,
                          !.correctIndex =
                              findIndex(shuffled, cs.correctStatement.naturalLanguageStatement),
                          !.isLocked = FALSE,
                          !.puzzleNumber = cs.puzzleNumber + 1]
    IN  [cs |-> cs2,
         dom |-> toggleControlsDuringLoad(displayOptions([d EXCEPT !.grid = cs2.grid], shuffled),
                                          FALSE),
         gpc |-> "idle",
         round |-> [outcome |-> "displayed", template |-> template,
                    distractors |-> inc.picked,
                    shown |-> cs2.correctStatement.naturalLanguageStatement]]

\* Steps 3 to 7 of initializeGame for the template drawn as the correct one.
RoundOf(cs, d, templateBank, correctTemplate) ==
    IF generateStatementsThrows(templateBank[correctTemplate])
    THEN {RoundFailed(cs, d, correctTemplate)}
    ELSE UNION {UNION {UNION {
        IF gridResult.threw THEN {RoundFailed(cs, d, correctTemplate)}
        ELSE LET cs1 == [cs EXCEPT
                            !.grid = gridResult.grid,
                            !.correctStatement =
                                [naturalLanguageStatement |-> statementData.naturalLanguageStatement,
                                 formalFOLStatement |-> statementData.formalFOLStatement,
                                 details |-> statementData.details,
                                 hint |-> statementData.hint],
                            !.value = TRUE,
                            !.hint = statementData.hint]
             IN  UNION {
                    CASE inc.kind = "threw" -> {RoundFailed(cs1, d, correctTemplate)}
                      [] inc.kind = "looping" ->
                            {[cs |-> cs1, dom |-> d, gpc |-> "looping",
                              round |-> [outcome |-> "looping", template |-> correctTemplate,
                                         distractors |-> {}, shown |-> lastRound.shown]]}
                      [] inc.kind = "returned" ->
                            {RoundDisplayed(cs1, d, correctTemplate, inc, shuffled) :
                                shuffled \in shuffleArray(
                                    uniqueOptions(<<cs1.correctStatement>> \o inc.statements))} :
                    inc \in generateIncorrectStatements(templateBank, correctTemplate,
                                                        cs1.grid)} :
        gridResult \in generateGrid(templateBank[correctTemplate], TRUE,
                                    statementData.details, g0)} :
        g0 \in createRandomGrid(gameDrawings)} :
        statementData \in generateStatements(templateBank[correctTemplate])}

\* initializeGame from the point where the template definitions are there: the set of
\* [cs, dom, gpc, round] it can end with.  cs and d are the state and the page as
\* the first lines of initializeGame left them (locked, controls disabled).
initializeGameLoaded(cs, d) ==
    LET templateBank == getTemplatesByDifficulty(cs.difficulty)
    IN  IF Len(templateBank) = 0 THEN {RoundFailed(cs, d, 0)}
        ELSE UNION {RoundOf(cs, d, templateBank, correctTemplate) :
                        correctTemplate \in 1..Len(templateBank)}

\* An initializeGame whose loader fetches templates.json at every call (what
\* loadTemplateDefinitions does not do once the definitions are cached).
initializeGameFetching(cs) ==
    /\ currentState' = [cs EXCEPT !.isLocked = TRUE]
    /\ dom' = [dom EXCEPT !.controlsDisabled = TRUE]
    /\ gpc' = "loading"
    /\ UNCHANGED <<cachedTemplates, lastRound>>

\* initializeGame, called with the state cs.  With the definitions cached no event
\* can run between its first lines and its end; without them it waits for the fetch.
initializeGame(cs) ==
    LET locked == [cs EXCEPT !.isLocked = TRUE]
        loading == toggleControlsDuringLoad(dom, TRUE)
    IN  IF cachedTemplates
        THEN /\ \E r \in initializeGameLoaded(locked, loading) :
                    /\ currentState' = r.cs
                    /\ dom' = r.dom
                    /\ gpc' = r.gpc
                    /\ lastRound' = r.round
             /\ UNCHANGED cachedTemplates
        ELSE /\ currentState' = locked
             /\ dom' = loading
             /\ gpc' = "loading"
             /\ UNCHANGED <<cachedTemplates, lastRound>>

\* The DOMContentLoaded handler.
DOMContentLoaded ==
    /\ gpc = "boot"
    /\ initializeGame(resetStats(currentState))
    /\ UNCHANGED changes
    /\ UNCHANGED engineVars

\* The fetch of templates.json fails (or its JSON does not parse): the await throws.
FetchFails ==
    /\ gpc = "loading"
    /\ LET r == RoundFailed(currentState, dom, 0)
       IN  /\ currentState' = r.cs
           /\ dom' = r.dom
           /\ gpc' = r.gpc
           /\ lastRound' = r.round
    /\ UNCHANGED <<cachedTemplates, changes>>
    /\ UNCHANGED engineVars

\* The fetch succeeds: the definitions are cached and initializeGame goes on.
FetchSucceeds ==
    /\ gpc = "loading"
    /\ cachedTemplates' = TRUE
    /\ \E r \in initializeGameLoaded(currentState, dom) :
          /\ currentState' = r.cs
          /\ dom' = r.dom
          /\ gpc' = r.gpc
          /\ lastRound' = r.round
    /\ UNCHANGED changes
    /\ UNCHANGED engineVars

\* A click on Next Puzzle.
ClickNext ==
    /\ gpc = "idle"
    /\ ~ dom.controlsDisabled
    /\ currentState.puzzleNumber < MaxPuzzles
    /\ initializeGame(currentState)
    /\ UNCHANGED changes
    /\ UNCHANGED engineVars

\* The change handler of the difficulty select.
ChangeDifficulty ==
    /\ gpc = "idle"
    /\ ~ dom.controlsDisabled
    /\ changes < MaxChanges
    /\ changes' = changes + 1
    /\ \E d \in difficultyOptions \ {currentState.difficulty} :
          initializeGame(resetStats([currentState EXCEPT !.difficulty = d]))
    /\ UNCHANGED engineVars

\* lockOptionButtons: every button disabled, the one carrying the correct statement
\* marked correct, the picked one marked incorrect when it is not that one.
lockOptionButtons(d, cs, selectedStatement) ==
    LET correctStatement == cs.correctStatement.naturalLanguageStatement
    IN  [d EXCEPT !.buttonsDisabled = TRUE,
                  !.markedCorrect = {i \in 1..Len(d.buttons) : d.buttons[i] = correctStatement},
                  !.markedPicked = {i \in 1..Len(d.buttons) : d.buttons[i] = selectedStatement},
                  !.markedIncorrect = {i \in 1..Len(d.buttons) :
                                          /\ d.buttons[i] = selectedStatement
                                          /\ d.buttons[i] # correctStatement}]

displayResult(cs, isCorrect) ==
    IF isCorrect
    THEN [cs EXCEPT !.correctCount = cs.correctCount + 1,
                    !.currentStreak = cs.currentStreak + 1]
    ELSE [cs EXCEPT !.currentStreak = 0]

\* A scoring that compares the guess with currentState.correctStatement (what
\* evaluateGuess does not).
evaluateGuessByStatement(cs, d, userGuess) ==
    IF cs.isLocked THEN [cs |-> cs, dom |-> d]
    ELSE LET locked == [cs EXCEPT !.isLocked = TRUE]
         IN  [cs |-> displayResult(locked,
                                   userGuess = locked.correctStatement.naturalLanguageStatement),
              dom |-> lockOptionButtons(d, locked, userGuess)]

\* evaluateGuess: the state and the page it leaves.
evaluateGuess(cs, d, userGuess) ==
    IF cs.isLocked THEN [cs |-> cs, dom |-> d]
    ELSE LET locked == [cs EXCEPT !.isLocked = TRUE]
             selectedIndex == findIndex(locked.options, userGuess)
             isCorrect == (selectedIndex = locked.correctIndex)
         IN  [cs |-> displayResult(locked, isCorrect),
              dom |-> lockOptionButtons(d, locked, userGuess)]

\* A click on an option button that is not disabled.
ClickOption ==
    /\ gpc \in {"idle", "loading"}
    /\ ~ dom.buttonsDisabled
    /\ \E i \in 1..Len(dom.buttons) :
          LET r == evaluateGuess(currentState, dom, dom.buttons[i])
          IN  /\ currentState' = r.cs
              /\ dom' = r.dom
    /\ UNCHANGED <<cachedTemplates, gpc, lastRound, changes>>
    /\ UNCHANGED engineVars

NextGame ==
    \/ DOMContentLoaded
    \/ FetchFails
    \/ FetchSucceeds
    \/ ClickNext
    \/ ChangeDifficulty
    \/ ClickOption

SpecGame == Init /\ [][NextGame]_vars

(***************************************************************************)
(* Properties of the rule engine (checked under Spec).                     *)
(***************************************************************************)
Verified == pc \in {"verified", "verifiedAgain"}

\* C1 (verify-after-enforce): once generateGrid was called with satisfies = true on
\* the details generateStatements returned, verifyStatementWithGrid on the grid it
\* returned gives true, whatever the random grid and the draws of the enforcement.
VerifyAfterEnforce == (Verified /\ satisfies) => verdict

\* C2 (verify-after-violate): once generateGrid was called with satisfies = false,
\* verifyStatementWithGrid on the grid it returned gives false, whichever rule
\* createViolation drew.
VerifyAfterViolate == (Verified /\ ~ satisfies) => ~ verdict

\* The postcondition of one action of an implication rule on one cell.
ActionPostcondition(action, cell, d) ==
    CASE action.action = "setCellProperty" ->
            cell[action.property] = resolveValue(action.value, CellContext(cell, d))
      [] action.action = "setCellPropertyDistinct" ->
            cell[action.property] # Lookup(d, action.fromPlaceholder)
      [] action.action = "requireRegion" ->
            isInRegion(cell,
                       resolveValue(action.direction, CellContext(cell, d)),
                       resolveValue(action.size, CellContext(cell, d)))
      [] OTHER -> TRUE

\* The consequent of a rule at cell i of g: every postcondition for an implication,
\* a neighbor meeting the conditions for a neighbor requirement.
ConsequentHoldsAt(rule, g, i, d) ==
    IF rule.type = "implication"
    THEN \A k \in 1..Len(rule.actions) : ActionPostcondition(rule.actions[k], g[i], d)
    ELSE MatchingNeighbor(rule, g, i, d) # 0

\* The cells of g at which the antecedent of the rule holds and its consequent does not.
FailingCells(rule, g, d) ==
    {i \in 1..Len(g) : /\ evaluateCondition(rule.when, CellContext(g[i], d))
                       /\ ~ ConsequentHoldsAt(rule, g, i, d)}

OnlyImplicationRules ==
    \A k \in 1..Len(definition.rules) : definition.rules[k].type = "implication"

\* C3 (rule verification is exact): for a definition of implication rules, the verdict
\* of verifyStatementWithGrid is true if and only if every cell at which a rule's
\* `when` holds meets the postcondition of every action of that rule, the
\* postcondition of setCellPropertyDistinct being that the property differs from the
\* value of the placeholder it names.
RuleVerificationExact ==
    (Verified /\ OnlyImplicationRules) =>
        (verdict <=> \A k \in 1..Len(definition.rules) :
                        FailingCells(definition.rules[k], grid, details) = {})

ViolationIsSingleCell ==
    ( /\ pc \in {"generated", "verified", "verifiedAgain"}
      /\ ~ satisfies
      /\ chosenRule # 0
      /\ \A k \in 1..Len(definition.rules) :
            FailingCells(definition.rules[k], enforced, details) = {} )
    => Cardinality(FailingCells(definition.rules[chosenRule], grid, details)) = 1

(***************************************************************************)
(* Properties of the session controller (checked under SpecGame).          *)
(***************************************************************************)
OptionTexts == [i \in 1..Len(currentState.options) |->
                    currentState.options[i].naturalLanguageStatement]

\* C6 (distractor exclusivity): every statement generateIncorrectStatements returned
\* for the displayed round comes from a template whose verifyStatementWithGrid, on the
\* round's grid and the statement's own details, returns false.
DistractorExclusivity ==
    lastRound.outcome = "displayed" =>
        \A x \in lastRound.distractors :
            ~ verifyStatementWithGrid(
                  getTemplatesByDifficulty(currentState.difficulty)[x.template],
                  currentState.grid, x.details).result

\* A round is displayed with three distractors, a template of the bank having been
\* left out because the grid satisfies its statement.
DistractorRejected ==
    /\ lastRound.outcome = "displayed"
    /\ Cardinality(lastRound.distractors) = 3
    /\ LET templateBank == getTemplatesByDifficulty(currentState.difficulty)
       IN  \E i \in 1..Len(templateBank) :
              /\ i # lastRound.template
              /\ \A x \in lastRound.distractors : x.template # i
              /\ ~ generateStatementsThrows(templateBank[i])
              /\ \E sd \in generateStatements(templateBank[i]) :
                    verifyStatementWithGrid(templateBank[i], currentState.grid,
                                            sd.details).result

\* C7 (exactly four options): a round that was initialized successfully presents four
\* options, exactly one of which carries the ground-truth statement, and correctIndex
\* points at it.
FourOptions ==
    lastRound.outcome = "displayed" =>
        /\ Len(currentState.options) = 4
        /\ Cardinality({i \in 1..4 :
                OptionTexts[i] = currentState.correctStatement.naturalLanguageStatement}) = 1
        /\ currentState.correctIndex \in 0..3
        /\ OptionTexts[currentState.correctIndex + 1] =
                currentState.correctStatement.naturalLanguageStatement

\* C8 (no duplicate options): the statements in currentState.options have pairwise
\* distinct natural-language text.
NoDuplicateOptions ==
    \A i, j \in 1..Len(currentState.options) : i # j => OptionTexts[i] # OptionTexts[j]

\* A round is displayed whose three distractors left two options besides the correct
\* one: two of them carried the same text.
DuplicateDropped ==
    /\ lastRound.outcome = "displayed"
    /\ Cardinality(lastRound.distractors) = 3
    /\ Len(currentState.options) = 3

\* C9 (scoring is by exact text match): a guess that is accepted (a button gets marked
\* as picked) adds 1 to correctCount and to currentStreak when the text of the picked
\* button is the ground-truth statement of the puzzle on display, and otherwise sets
\* currentStreak to 0 and leaves correctCount as it was.
ScoringByExactMatch ==
    [][(dom.markedPicked = {} /\ dom'.markedPicked # {}) =>
          IF dom.buttons[CHOOSE i \in dom'.markedPicked : TRUE] = lastRound.shown
          THEN /\ currentState'.correctCount = currentState.correctCount + 1
               /\ currentState'.currentStreak = currentState.currentStreak + 1
          ELSE /\ currentState'.correctCount = currentState.correctCount
               /\ currentState'.currentStreak = 0]_vars

\* The second puzzle was answered wrongly after the first was answered correctly.
ScoredBothWays ==
    /\ dom.markedPicked # {}
    /\ currentState.puzzleNumber = 2
    /\ currentState.correctCount = 1
    /\ currentState.currentStreak = 0

\* C10 (a failed round leaves the previous playable state): when initializeGame fails,
\* currentState.grid, correctStatement, hint, options and correctIndex are what they
\* were before the call.
FailedRoundKeepsState ==
    [][lastRound'.outcome = "failed" =>
          /\ currentState'.grid = currentState.grid
          /\ currentState'.correctStatement = currentState.correctStatement
          /\ currentState'.hint = currentState.hint
          /\ currentState'.options = currentState.options
          /\ currentState'.correctIndex = currentState.correctIndex]_vars

(***************************************************************************)
(* Authoring errors (checked under Spec).                                  *)
(***************************************************************************)
UnknownRuleType(definitionOfTemplate) ==
    \E k \in 1..Len(definitionOfTemplate.rules) :
        definitionOfTemplate.rules[k].type \notin {"implication", "neighborRequirement"}

\* C11 (authoring errors are fatal): each facade call that reads the faulty part of a
\* definition signals an error instead of returning a result.  generateStatements
\* returns nothing for a definition with a placeholder type or computed field the
\* engine does not know; generateGrid (satisfies true or false) and
\* verifyStatementWithGrid return nothing for a definition with a rule type the
\* engine does not know.
AuthoringErrorsAreFatal ==
    /\ generateDetailsThrows(definition) => pc \in {"start", "threw"}
    /\ UnknownRuleType(definition) =>
            pc \notin {"generated", "verified", "verifiedAgain", "verifiedOther"}

(***************************************************************************)
(* Termination, loading and fallback (checked under SpecGame).             *)
(***************************************************************************)
\* C12 (distractor generation always terminates): generateIncorrectStatements never
\* reaches a point from which no pass of its loop can add a statement or leave the
\* loop; when fewer than three distractors can be had it gives up with a failure.
DistractorGenerationTerminates == gpc # "looping"

UnknownTierRound ==
    /\ cachedTemplates
    /\ gpc = "idle"
    /\ currentState.difficulty \notin DOMAIN definitions

\* The statements of the displayed round are statements of the easy templates.
PlayedWithEasyTemplates ==
    /\ lastRound.outcome = "displayed"
    /\ \E sd \in generateStatements(definitions["easy"][lastRound.template]) :
          sd.naturalLanguageStatement = currentState.correctStatement.naturalLanguageStatement
    /\ \A x \in lastRound.distractors :
          \E sd \in generateStatements(definitions["easy"][x.template]) :
              /\ sd.details = x.details
              /\ \E i \in 1..Len(currentState.options) :
                    currentState.options[i].naturalLanguageStatement =
                        sd.naturalLanguageStatement

\* C14 as the specification states it: for an unknown difficulty key the loader fails
\* with a "not found" signal, and the round is played with the easy templates.
UnknownTierNotFound ==
    UnknownTierRound =>
        /\ getTemplatesByDifficultyThrows(currentState.difficulty)
        /\ PlayedWithEasyTemplates

\* C14 (amended): for an unknown difficulty key the loader signals no failure; it
\* returns the easy templates itself, and the round is played with them.
UnknownTierPlaysEasy ==
    UnknownTierRound =>
        /\ ~ getTemplatesByDifficultyThrows(currentState.difficulty)
        /\ getTemplatesByDifficulty(currentState.difficulty) = definitions["easy"]
        /\ PlayedWithEasyTemplates

\* A puzzle is displayed under the difficulty key "expert".
UnknownTierDisplayed ==
    /\ UnknownTierRound
    /\ lastRound.outcome = "displayed"
    /\ Len(dom.buttons) = 4

(***************************************************************************)
(* Properties of single rules (checked under Spec).                        *)
(***************************************************************************)
Generated == pc \in {"generated", "verified", "verifiedAgain"}

\* Cell i of g sits at row (i - 1) \div gridSize, column (i - 1) % gridSize.
RowMajor(g) ==
    /\ Len(g) = gridSize * gridSize
    /\ \A i \in 1..Len(g) :
          g[i].position = [row |-> (i - 1) \div gridSize, col |-> (i - 1) % gridSize]

\* C15 (grid shape): every grid generateGrid returns, with satisfies true or false,
\* has gridSize * gridSize cells in row-major order, one per position, and neither
\* the enforcement nor the violation has changed the position of a cell.
GridShape == Generated => (RowMajor(enforced) /\ RowMajor(grid))

\* The rule "when shape = S, set color := C, violation color distinct from C" with
\* S = circle and C = pink.
AllCirclesArePinkRule ==
    /\ definition.rules =
          allShapeColor(Choice("S", <<"circle">>), Choice("C", <<"#ff82a9">>)).rules
    /\ details.S = "circle"
    /\ details.C = "#ff82a9"

NonPinkCircles(g) == {i \in 1..Len(g) : g[i].shape = "circle" /\ g[i].color # "#ff82a9"}
Circles(g) == {i \in 1..Len(g) : g[i].shape = "circle"}

\* C16 ('all circles are pink'): for the single implication rule "when shape equals
\* circle, set color to pink, violation sets color distinct from pink", the enforced
\* grid has no non-pink circle, and the grid violated from it has at least one
\* non-pink circle, also when the enforced grid held no circle at all.
AllCirclesArePink ==
    (Generated /\ AllCirclesArePinkRule) =>
        /\ NonPinkCircles(enforced) = {}
        /\ ~ satisfies => NonPinkCircles(grid) # {}

\* A violation made on an enforced grid that held no circle.
ViolatedWithoutCircle ==
    /\ Generated /\ AllCirclesArePinkRule /\ ~ satisfies
    /\ Circles(enforced) = {}
    /\ NonPinkCircles(grid) # {}

\* The cells of g that satisfy rule.when and have no neighbor in the rule's direction.
UnbrokenBoundaryCells(rule, g, d) ==
    {i \in 1..Len(g) :
        /\ evaluateCondition(rule.when, CellContext(g[i], d))
        /\ getNeighborCells(g, g[i],
               resolveValue(rule.neighbor.direction, CellContext(g[i], d))) = <<>>}

SingleNeighborRule ==
    Len(definition.rules) = 1 /\ definition.rules[1].type = "neighborRequirement"

\* C17 (missing-neighbor policy): after enforceNeighborRule has passed over the grid,
\* every cell with no neighbor in the rule's direction has a false antecedent, so
\* verifyNeighborRule does not fail on a boundary cell.
BoundaryCellsLeaveAntecedent ==
    (Generated /\ SingleNeighborRule) =>
        UnbrokenBoundaryCells(definition.rules[1], enforced, details) = {}

SingleImplicationRule ==
    Len(definition.rules) = 1 /\ definition.rules[1].type = "implication"

\* The rule has an action that can report needsBreak.
CanNeedBreak(rule) == \E k \in 1..Len(rule.actions) : rule.actions[k].action = "requireRegion"

\* The actions of rule that report needsBreak on cell: only requireRegion can, and no
\* cell action writes the position it reads.
BreakingActions(rule, cell, d) ==
    {k \in 1..Len(rule.actions) :
        /\ rule.actions[k].action = "requireRegion"
        /\ ~ isInRegion(cell,
                        resolveValue(rule.actions[k].direction, CellContext(cell, d)),
                        resolveValue(rule.actions[k].size, CellContext(cell, d)))}

\* What the cell may be after the actions before the first breaking one and then the
\* break-antecedent action have been applied to it, and nothing else.
BrokenAtFirst(rule, cell, d) ==
    LET breaking == BreakingActions(rule, cell, d)
        first == CHOOSE k \in breaking : \A j \in breaking : k <= j
    IN  UNION {applyBreakAntecedent(rule, c, d) :
                  c \in ApplyEveryActionFrom(SubSeq(rule.actions, 1, first - 1), 1, cell, d)}

\* The cells of the random grid g0 whose antecedent holds and that need a break.
CellsNeedingBreak(rule, g0, d) ==
    {i \in 1..Len(g0) :
        /\ evaluateCondition(rule.when, CellContext(g0[i], d))
        /\ BreakingActions(rule, g0[i], d) # {}}

\* The random grids enforceImplicationRule can have turned into the enforced grid.
DrawnGrids ==
    {g0 \in createRandomGrid(engineDrawings) :
        enforced \in enforceImplicationRule(definition.rules[1], g0, details)}

\* C18 (needs-break handling): in enforceImplicationRule a cell whose antecedent holds
\* gets the actions in list order; at the first action that reports needsBreak the
\* break-antecedent action is applied, no later action is applied, the earlier ones
\* are kept, and afterwards the antecedent of the cell is false.
NeedsBreakFalsifiesAntecedent ==
    (Generated /\ SingleImplicationRule /\ CanNeedBreak(definition.rules[1])) =>
        \A g0 \in DrawnGrids : \A i \in CellsNeedingBreak(definition.rules[1], g0, details) :
            /\ enforced[i] \in BrokenAtFirst(definition.rules[1], g0[i], details)
            /\ ~ evaluateCondition(definition.rules[1].when, CellContext(enforced[i], details))

\* The definition in hand is the one whose two rules write the color of one cell.
TwoWritersOfColor ==
    /\ Len(definition.rules) = 2
    /\ definition.rules = neighborColorThenShapeColor.rules

\* C19 (last write wins): enforceRules takes the rules in declaration order, one whole
\* pass per rule, and never returns to an earlier rule: where the neighbor rule
\* (declared first) and the implication rule (declared second) both write the color of
\* a cell, the enforced grid holds the color the second rule wrote.
LaterRuleWins ==
    (Generated /\ TwoWritersOfColor) =>
        \A i \in 1..Len(enforced) :
            enforced[i].shape = details.T => enforced[i].color = details.E

\* A {T} cell at the left of a {S}: the first rule wrote its color for the {S} cell
\* (visited after it), the second rule wrote it again.
BothRulesWrote ==
    /\ Generated /\ TwoWritersOfColor
    /\ \E i \in 1..(Len(enforced) - 1) :
          /\ enforced[i].position.col = 0
          /\ enforced[i].shape = details.T
          /\ enforced[i + 1].shape = details.S
          /\ enforced[i].color = details.E

\* The definition in hand has one neighbor rule, satisfied by ensureNeighborNumber.
NeighborNumberRule ==
    /\ SingleNeighborRule
    /\ Len(definition.rules[1].neighbor.satisfy) = 1
    /\ definition.rules[1].neighbor.satisfy[1].action = "ensureNeighborNumber"

comparisonInHand == definition.rules[1].neighbor.satisfy[1].comparison

Compare(comparison, value, threshold) ==
    CASE comparison = "greaterThan" -> value > threshold
      [] comparison = "greaterOrEqual" -> value >= threshold
      [] comparison = "lessThan" -> value < threshold
      [] comparison = "lessOrEqual" -> value <= threshold

\* The right neighbors of the {S} cells of g: the cells whose number the rule adjusts.
AdjustedNeighbors(g) ==
    {n \in 2..Len(g) : g[n].position.col > 0 /\ g[n - 1].shape = details.S}

InNumbers(value) == value \in Range(numbers)

\* Some number of the domain meets (breaks) the comparison against the threshold.
Meetable(comparison, threshold) ==
    \E v \in Range(numbers) : Compare(comparison, v, threshold)
Breakable(comparison, threshold) ==
    \E v \in Range(numbers) : ~ Compare(comparison, v, threshold)

\* C20 as the specification states it: for each of the four comparisons and every
\* threshold in 1..10, ensureNeighborNumber leaves the neighbor's number in 1..10 and
\* meeting the comparison, and setNeighborNumberBreaking leaves it in 1..10 and not
\* meeting it.
NumberAdjustmentMeetsOrBreaks ==
    (Generated /\ NeighborNumberRule) =>
        /\ \A n \in AdjustedNeighbors(enforced) :
              /\ InNumbers(enforced[n].number)
              /\ Compare(comparisonInHand, enforced[n].number, details.N)
        /\ ~ satisfies =>
              \E n \in AdjustedNeighbors(grid) :
                  /\ InNumbers(grid[n].number)
                  /\ ~ Compare(comparisonInHand, grid[n].number, details.N)

\* C20 (amended): the adjusted number is always in 1..10; it meets the comparison
\* whenever some number of 1..10 does, and the violated grid has a neighbor whose
\* number breaks the comparison whenever some number of 1..10 does.
NumberAdjustmentWithinDomain ==
    (Generated /\ NeighborNumberRule) =>
        /\ \A n \in AdjustedNeighbors(enforced) :
              /\ InNumbers(enforced[n].number)
              /\ Meetable(comparisonInHand, details.N) =>
                    Compare(comparisonInHand, enforced[n].number, details.N)
        /\ \A n \in AdjustedNeighbors(grid) : InNumbers(grid[n].number)
        /\ (~ satisfies /\ Breakable(comparisonInHand, details.N)) =>
              \E n \in AdjustedNeighbors(grid) :
                  ~ Compare(comparisonInHand, grid[n].number, details.N)

\* "greater than 9": the enforcement wrote 10, the violation wrote 9.
AdjustedNextToTheEdge ==
    /\ Generated /\ NeighborNumberRule /\ ~ satisfies
    /\ comparisonInHand = "greaterThan" /\ details.N = 9
    /\ \E n \in AdjustedNeighbors(enforced) : enforced[n].number = 10 /\ grid[n].number = 9

\* Every cell of g has its shape, color and number in the domain of the property.
InDomains(g) ==
    \A i \in 1..Len(g) :
        /\ g[i].shape \in Range(shapes)
        /\ g[i].color \in Range(colors)
        /\ g[i].number \in Range(numbers)

\* C21 (cell domains): after generateGrid, with satisfies true or false, every cell
\* has a shape among circle, square, triangle, a color among the five colors and a
\* number in 1..10: no enforcement, violation or back-fill of an antecedent has
\* written a value outside the domain of the property.
CellDomains == Generated => (InDomains(enforced) /\ InDomains(grid))

\* The back-fill of "number greater than 10" wrote the largest number into grid[0].
BackFilledAtTheEdge ==
    /\ Generated /\ ~ satisfies
    /\ definition.rules = numberAboveColor.rules
    /\ details.N = 10
    /\ enforced[1].number # 10
    /\ grid[1].number = 10

(***************************************************************************)
(* The counters of the game (checked under SpecGame).                      *)
(***************************************************************************)
\* C22 (a puzzle is scored at most once): whatever the order of option clicks, Next
\* Puzzle clicks, difficulty changes and initializations that succeed or fail, a
\* puzzle adds at most one to the counters, so that
\* currentStreak <= correctCount <= puzzleNumber in every reachable state.
ScoredAtMostOnce ==
    /\ currentState.currentStreak <= currentState.correctCount
    /\ currentState.correctCount <= currentState.puzzleNumber

====
